---- MODULE Spec2Model ----
(***************************************************************************)
(* Model of crossbar/webservice/wap.py: WapResource, the Twisted Web       *)
(* resource that maps an HTTP request to a WAMP call and renders the       *)
(* result through a Jinja2 template.                                       *)
(*                                                                         *)
(* Text is a sequence of tokens: a token is one special character          *)
(* ("<", ">", "&", a double quote, an apostrophe), one non-ASCII character *)
(* ("U+00E9") or a run of plain ASCII characters.  Bytes are the same,     *)
(* with a non-ASCII character replaced by its UTF-8 bytes.                 *)
(***************************************************************************)
EXTENDS Integers, Sequences, FiniteSets, TLC

\* ------------------------------------------------------------------ bounds
\* Number of requests a behaviour accepts.
MaxRequests == 2

\* ------------------------------------------------------------- text helpers
RECURSIVE Flatten(_)
\* Concatenation of a sequence of texts (str.join / str.format pieces).
Flatten(pieces) ==
    IF pieces = <<>> THEN <<>> ELSE Head(pieces) \o Flatten(Tail(pieces))

\* werkzeug.utils.escape on one character: & < > " are replaced.
escapeChar(c) ==
    CASE c = "&"  -> <<"&", "amp;">>
      [] c = "<"  -> <<"&", "lt;">>
      [] c = ">"  -> <<"&", "gt;">>
      [] c = "\"" -> <<"&", "quot;">>
      [] OTHER    -> <<c>>

\* werkzeug.utils.escape(message), line 174.
escape(message) ==
    Flatten([i \in 1..Len(message) |-> escapeChar(message[i])])

\* Jinja2 autoescape (Environment(autoescape=True), line 100): markupsafe
\* escaping of a substituted value; the apostrophe is replaced as well.
autoescapeChar(c) ==
    IF c = "'" THEN <<"&", "#39;">> ELSE escapeChar(c)

autoescape(value) ==
    Flatten([i \in 1..Len(value) |-> autoescapeChar(value[i])])

\* str.encode('utf8') on one character.
encodeChar(c) ==
    IF c = "U+00E9" THEN <<"0xC3", "0xA9">> ELSE <<c>>

\* str.encode('utf8'), lines 141 and 174.
encode_utf8(text) ==
    Flatten([i \in 1..Len(text) |-> encodeChar(text[i])])

\* WapResource._render_error, lines 157-174: the fixed HTML shell around the
\* escaped message, UTF-8 encoded.
_render_error(message) ==
    encode_utf8(
        <<"<", "html", ">", "<", "title", ">", "API Error", "<", "/title", ">",
          "<", "body", ">", "<", "h3 style=", "\"", "color: #f00", "\"", ">",
          "Crossbar WAMP Application Page Error", "<", "/h3", ">",
          "<", "pre", ">">>
        \o escape(message) \o
        <<"<", "/pre", ">", "<", "/body", ">", "<", "/html", ">">>)

\* ------------------------------------------------------- template rendering
\* The compiled templates the routes name (env.get_template, line 112).  A
\* template is a sequence of literal pieces and variable substitutions.
Templates ==
    [hello_html |-> << [kind |-> "lit", text |-> <<"Hello ">>],
                       [kind |-> "var", name |-> "name"] >>,
     user_html  |-> << [kind |-> "lit", text |-> <<"<", "p", ">">>],
                       [kind |-> "var", name |-> "name"],
                       [kind |-> "lit", text |-> <<"<", "/p", ">">>] >>,
     ping_html  |-> << [kind |-> "lit", text |-> <<"pong">>] >>,
     docs_html  |-> << [kind |-> "lit", text |-> <<"docs">>] >>]

\* Template.render(result) raises when dict(result) does: the result is not
\* a mapping (line 134, caught at line 135).
render_raises(result) == result.kind # "dict"

\* The text of the exception dict(result) raises.
render_exception(result) ==
    <<"'", result.kind, "'", " object is not iterable">>

\* One piece of a template rendered against the mapping: a literal as it
\* is, a variable autoescaped, an undefined variable as the empty string.
render_piece(piece, vars) ==
    IF piece.kind = "lit" THEN piece.text
    ELSE IF piece.name \in DOMAIN vars THEN autoescape(vars[piece.name])
    ELSE <<>>

\* request.template.render(result), line 134, for a mapping.
render(template, result) ==
    Flatten([i \in 1..Len(Templates[template]) |->
                render_piece(Templates[template][i], result.value)])

\* type(result) as str.format prints it, line 136.
type_repr(result) == <<"<", "class ", "'", result.kind, "'", ">">>

\* Mutant of render_emsg: the message does not name the type of the result.
render_emsg_without_type(result) ==
    <<"WabResource render error: ">> \o render_exception(result)

\* The message of a render failure, line 136.
render_emsg(result) ==
    <<"WabResource render error for WAMP result of type ", "\"">>
    \o type_repr(result) \o <<"\"", ": ">> \o render_exception(result)

\* ------------------------------------------------------------- route table
\* The mount path of the service (argument path of __init__).
path == <<[kind |-> "fix", s |-> "app"]>>

\* config['routes']: path pattern (segments, trailing slash), method,
\* procedure to call and template to render.
config_routes ==
    << [path |-> <<[kind |-> "fix", s |-> "hello"]>>, slash |-> FALSE,
        method |-> "GET", call |-> "com.app.hello", render |-> "hello_html"],
       [path |-> <<[kind |-> "fix", s |-> "user"], [kind |-> "var", s |-> "name"]>>,
        slash |-> FALSE,
        method |-> "GET", call |-> "com.app.user", render |-> "user_html"],
       [path |-> <<[kind |-> "fix", s |-> "ping"]>>, slash |-> FALSE,
        method |-> "HEAD", call |-> "com.app.ping", render |-> "ping_html"],
       [path |-> <<[kind |-> "fix", s |-> "docs"]>>, slash |-> TRUE,
        method |-> "GET", call |-> "com.app.docs", render |-> "docs_html"] >>

\* werkzeug Rule(route_url, methods=[method], endpoint=...): a rule that
\* allows GET allows HEAD as well.
Rule(route) ==
    [rule     |-> path \o route.path,
     branch   |-> route.slash,
     methods  |-> IF route.method = "GET" THEN {"GET", "HEAD"} ELSE {route.method},
     endpoint |-> <<route.call, route.render>>]

\* The rules of the map built in __init__, lines 105-122.
map_rules == [i \in 1..Len(config_routes) |-> Rule(config_routes[i])]

\* Mutant of rule_matches: the fixed segments are not compared.
rule_matches_by_length(rule, uri) ==
    /\ Len(rule.rule) = Len(uri.segs)
    /\ (uri.slash => rule.branch)

\* Rule.match on the segments: same length, fixed segments equal.
rule_matches(rule, uri) ==
    /\ Len(rule.rule) = Len(uri.segs)
    /\ \A i \in 1..Len(rule.rule) :
          rule.rule[i].kind = "fix" => rule.rule[i].s = uri.segs[i]
    /\ (uri.slash => rule.branch)

\* The variables Rule.match extracts from the path.
rule_kwargs(rule, uri) ==
    [n \in {rule.rule[i].s : i \in {j \in 1..Len(rule.rule) : rule.rule[j].kind = "var"}} |->
        uri.segs[CHOOSE i \in 1..Len(rule.rule) :
                    rule.rule[i].kind = "var" /\ rule.rule[i].s = n]]

RECURSIVE match_from(_, _, _, _)
\* MapAdapter.match: the first rule that matches path and method; a branch
\* rule requested without its trailing slash raises RequestRedirect; rules
\* that match the path only are remembered for MethodNotAllowed.
match_from(i, uri, method, have_match_for) ==
    IF i > Len(map_rules)
    THEN IF have_match_for THEN [kind |-> "MethodNotAllowed"]
                           ELSE [kind |-> "NotFound"]
    ELSE IF ~rule_matches(map_rules[i], uri)
    THEN match_from(i + 1, uri, method, have_match_for)
    ELSE IF method \notin map_rules[i].methods
    THEN match_from(i + 1, uri, method, TRUE)
    ELSE IF map_rules[i].branch /\ ~uri.slash
    THEN [kind |-> "RequestRedirect"]
    ELSE [kind |-> "ok", endpoint |-> map_rules[i].endpoint,
          kwargs |-> rule_kwargs(map_rules[i], uri)]

\* self._map_adapter.match(full_path), line 210: no method is passed, so the
\* adapter's default method of map.bind('/') is used.
match(full_path) == match_from(1, full_path, "GET", FALSE)

\* ------------------------------------------------------------------- state
VARIABLES
    session_cache,    \* self._session_cache: cookie -> session
    default_session,  \* self._default_session
    num_sessions,     \* number of ApplicationSession objects constructed
    registered,       \* sessions passed to _router_session_factory.add, in order
    requests          \* the requests render_GET was entered with, in order

vars == <<session_cache, default_session, num_sessions, registered, requests>>

\* Python's None, as dict.get returns it for a missing cookie.
None == "None"

\* No session object (dict.get on the session cache found nothing).
NoSession == 0

\* ------------------------------------------------------------------ inputs
\* Values of received_cookies.get(b'session_cookie'): absent, empty, tokens.
Cookies == {None, "", "t1", "t2"}

\* Request lines: the method (twisted.web dispatches GET to render_GET and
\* HEAD to render_HEAD, which calls render_GET) and the URI, as path
\* segments and whether the path ends with a slash.
RequestLines ==
    { [method |-> "HEAD", uri |-> [segs |-> <<"app", "hello">>, slash |-> FALSE]],
      [method |-> "GET",  uri |-> [segs |-> <<"app", "user", "ann">>, slash |-> FALSE]],
      [method |-> "GET",  uri |-> [segs |-> <<"app", "ping">>, slash |-> FALSE]],
      [method |-> "HEAD", uri |-> [segs |-> <<"app", "ping">>, slash |-> FALSE]],
      [method |-> "GET",  uri |-> [segs |-> <<"app", "docs">>, slash |-> FALSE]],
      [method |-> "GET",  uri |-> [segs |-> <<"app", "nope">>, slash |-> FALSE]] }

\* Values a remote call returns.
Results ==
    { [kind |-> "dict", value |-> [name |-> <<"Ann">>]],
      [kind |-> "dict", value |-> [name |-> <<"<", "U+00E9", "'">>]],
      [kind |-> "NoneType"] }

\* Values a remote call fails with (the value of the Failure).
Failures ==
    { [type |-> "ApplicationError", error |-> <<"boom ", "<", "U+00E9", ">">>],
      [type |-> "Exception"] }

\* --------------------------------------------------- twisted.web request API
\* request.setResponseCode(code)
setResponseCode(req, code) == [req EXCEPT !.code = code]

\* request.write(data)
write(req, data) == [req EXCEPT !.written = Append(@, data)]

\* request.finish()
finish(req) == [req EXCEPT !.finished = @ + 1]

\* render_GET returns bytes: twisted.web.server.Request.render writes them
\* and finishes the request.
returned(req, body) == [finish(write(req, body)) EXCEPT !.pc = "done"]

\* render_GET raises: twisted.web.server.Request.process catches it and
\* processingFailed sets 500, writes its failure page and finishes.
processingFailed(req, exc) ==
    [finish(write(setResponseCode(req, 500), <<"Processing Failed">>))
        EXCEPT !.pc = "done", !.raised = exc]

\* A request as render_GET receives it: default status 200, nothing written.
new_request(cookie, uri, method) ==
    [cookie |-> cookie, uri |-> uri, method |-> method,
     session |-> NoSession, created |-> FALSE,
     template |-> None, calls |-> <<>>, completion |-> [kind |-> "none"],
     code |-> 200, written |-> <<>>, finished |-> 0,
     raised |-> None, pc |-> "entered"]

\* Mutant of add: the session is not handed to the factory.
add_dropped(factory, session) == factory

\* worker._router_session_factory.add(session, ...), lines 94 and 194: the
\* session is handed to the router session factory.
add(factory, session) == Append(factory, session)

\* -------------------------------------------------------------------- Init
\* WapResource.__init__, lines 67-122: empty cache, the default session
\* constructed and added to the router session factory.
Init ==
    /\ session_cache = [c \in {} |-> NoSession]
    /\ default_session = 1
    /\ num_sessions = 1
    /\ registered = add(<<>>, 1)
    /\ requests = <<>>

\* ----------------------------------------------------------------- actions
\* Mutant of cookie_truthy: an absent cookie is taken for a token.
cookie_truthy_when_absent(cookie) == cookie # ""

\* Mutant of cookie_truthy: only an absent cookie is falsy (is not None).
cookie_truthy_when_empty(cookie) == cookie # None

\* Truthiness of the cookie, line 187.
cookie_truthy(cookie) == cookie # None /\ cookie # ""

\* Mutant of cache_get: the lookup never finds the cached session.
cache_get_miss(cache, cookie) == NoSession

\* self._session_cache.get(cookie), line 188.
cache_get(cache, cookie) ==
    IF cookie \in DOMAIN cache THEN cache[cookie] ELSE NoSession

\* Mutant of cache_put: the new session is not stored in the cache.
cache_put_dropped(cache, cookie, session) == cache

\* self._session_cache[cookie] = session, line 195.
cache_put(cache, cookie, session) ==
    [c \in DOMAIN cache \cup {cookie} |-> IF c = cookie THEN session ELSE cache[c]]

\* Mutant of unexpected: the error page is not written before the re-raise.
unexpected_without_body(req) == setResponseCode(req, 500)

\* The except Exception clause of render_GET before its raise, lines
\* 241-243: status 500 and the fixed error page.
unexpected(req) ==
    write(setResponseCode(req, 500),
          _render_error(<<"unknown error [werkzeug.routing.MapAdapter.match]">>))

\* The try block of render_GET, lines 207-244, for a request whose session
\* is resolved.
dispatch(req, session, call_raises) ==
    LET m == match(req.uri) IN
    CASE m.kind = "NotFound" ->
            returned(setResponseCode(req, 404),
                     _render_error(<<"path not found [werkzeug.routing.MapAdapter.match]">>))
      [] m.kind = "MethodNotAllowed" ->
            returned(setResponseCode(req, 511),
                     _render_error(<<"method not allowed [werkzeug.routing.MapAdapter.match]">>))
      [] m.kind = "RequestRedirect" ->
            processingFailed(unexpected(req), "RequestRedirect")
      [] m.kind = "ok" ->
            LET matched == [req EXCEPT !.template = m.endpoint[2]]
                kwargs  == IF m.kwargs # <<>> THEN m.kwargs ELSE <<>>
                called  == [matched EXCEPT !.calls = Append(@,
                              [session |-> session, procedure |-> m.endpoint[1],
                               kwargs |-> kwargs])]
            IN  IF call_raises
                THEN processingFailed(unexpected(called), "TransportLost")
                ELSE [called EXCEPT !.pc = "awaiting"]

\* WapResource.render_GET, lines 176-244.
render_GET(cookie, uri, method, call_raises) ==
    /\ Len(requests) < MaxRequests
    /\ LET cached  == IF cookie_truthy(cookie)
                      THEN cache_get(session_cache, cookie) ELSE NoSession
           creates == cookie_truthy(cookie) /\ cached = NoSession
           session == IF cookie_truthy(cookie)
                      THEN IF creates THEN num_sessions + 1 ELSE cached
                      ELSE default_session
           req     == [new_request(cookie, uri, method) EXCEPT
                          !.session = session, !.created = creates]
       IN  /\ num_sessions' = IF creates THEN num_sessions + 1 ELSE num_sessions
           /\ registered' = IF creates THEN add(registered, session) ELSE registered
           /\ session_cache' =
                 IF creates THEN cache_put(session_cache, cookie, session)
                 ELSE session_cache
           /\ requests' = Append(requests,
                 IF session = NoSession
                 THEN returned(req, _render_error(<<"could not call procedure - no session">>))
                 ELSE dispatch(req, session, call_raises))
    /\ UNCHANGED default_session

\* Mutant of success_body: the rendered text is written without encoding.
success_body_unencoded(template, result) == render(template, result)

\* The bytes written for a rendered result, lines 134 and 141.
success_body(template, result) == encode_utf8(render(template, result))

\* Mutant of request_template: the template is kept in one place shared by
\* all requests, so it is the one of the latest request that matched.
request_template_shared(reqs, i) ==
    reqs[CHOOSE k \in 1..Len(reqs) :
            /\ reqs[k].template # None
            /\ \A l \in (k + 1)..Len(reqs) : reqs[l].template = None].template

\* request.template of the request handed to the callback, lines 134 and
\* 228: the template stored on that request at line 210.
request_template(reqs, i) == reqs[i].template

\* WapResource._after_call_success, lines 124-142, run by the Deferred of
\* request i when its call returns result.
_after_call_success(i, result) ==
    /\ i \in 1..Len(requests)
    /\ requests[i].pc = "awaiting"
    /\ LET req == [requests[i] EXCEPT !.completion = [kind |-> "result", value |-> result]]
           out == IF render_raises(result)
                  THEN write(setResponseCode(req, 500), _render_error(render_emsg(result)))
                  ELSE write(req, success_body(request_template(requests, i), result))
       IN  requests' = [requests EXCEPT ![i] = [finish(out) EXCEPT !.pc = "done"]]
    /\ UNCHANGED <<session_cache, default_session, num_sessions, registered>>

\* WapResource._after_call_error, lines 144-155, run by the Deferred of
\* request i when its call fails with error; error.value.error raises
\* AttributeError when the failure's value has no attribute error.
_after_call_error(i, error) ==
    /\ i \in 1..Len(requests)
    /\ requests[i].pc = "awaiting"
    /\ LET req == setResponseCode(
                     [requests[i] EXCEPT !.completion = [kind |-> "failure", value |-> error]],
                     500)
       IN  requests' = [requests EXCEPT ![i] =
              IF "error" \in DOMAIN error
              THEN [finish(write(req, _render_error(error.error))) EXCEPT !.pc = "done"]
              ELSE [req EXCEPT !.pc = "done", !.raised = "AttributeError"]]
    /\ UNCHANGED <<session_cache, default_session, num_sessions, registered>>

Next ==
    \/ \E cookie \in Cookies, line \in RequestLines, call_raises \in BOOLEAN :
          render_GET(cookie, line.uri, line.method, call_raises)
    \/ \E i \in 1..MaxRequests, result \in Results : _after_call_success(i, result)
    \/ \E i \in 1..MaxRequests, error \in Failures : _after_call_error(i, error)

Spec == Init /\ [][Next]_vars

\* ------------------------------------------------------------------ claims
\* C1: every request that entered render_GET has at most one finish event,
\* and exactly one once it has left the pipeline.
C1_FinishedExactlyOnce ==
    \A i \in 1..Len(requests) :
        /\ requests[i].finished <= 1
        /\ requests[i].pc = "done" => requests[i].finished = 1

\* C2: no request hangs: a request whose response is not finished still has
\* its remote call outstanding, so that the completion of the call (which
\* is assumed to happen eventually) can finish it.
C2_NoRequestHangs ==
    \A i \in 1..Len(requests) :
        requests[i].finished = 0 => requests[i].pc = "awaiting"

\* The segments of uri fit the URL pattern of route (mount path included).
SegmentsFit(route, uri) ==
    LET pattern == path \o route.path IN
    /\ Len(pattern) = Len(uri.segs)
    /\ \A n \in 1..Len(pattern) : pattern[n].kind = "fix" => pattern[n].s = uri.segs[n]

\* The methods a route registered with method allows (GET implies HEAD).
Allowed(route) == IF route.method = "GET" THEN {"GET", "HEAD"} ELSE {route.method}

\* The variables of the pattern of route with their values in uri.
PathVariables(route, uri) ==
    LET pattern == path \o route.path
        at == {n \in 1..Len(pattern) : pattern[n].kind = "var"}
    IN  [v \in {pattern[n].s : n \in at} |->
            uri.segs[CHOOSE n \in at : pattern[n].s = v]]

\* C3: a request whose path and method match a registered route issues
\* exactly one call, on its session, to the route's procedure with the path
\* variables as keyword arguments, and gets the route's template.
C3_MatchedRouteIsCalled ==
    \A i \in 1..Len(requests), k \in 1..Len(config_routes) :
        LET req == requests[i]
            route == config_routes[k]
        IN  (/\ SegmentsFit(route, req.uri)
             /\ req.uri.slash = route.slash
             /\ req.method \in Allowed(route))
            => /\ req.calls = << [session |-> req.session,
                                  procedure |-> route.call,
                                  kwargs |-> PathVariables(route, req.uri)] >>
               /\ req.template = route.render

C5_WrongMethodIsClientError ==
    \A i \in 1..Len(requests) :
        LET req == requests[i]
            fits == {k \in 1..Len(config_routes) : SegmentsFit(config_routes[k], req.uri)}
        IN  (fits # {} /\ \A k \in fits : req.method \notin Allowed(config_routes[k]))
            => /\ req.code \in 400..499
               /\ req.calls = <<>>

\* C6: requests bearing the same session token use the same session; the
\* first of them creates it, registers it and caches it under the token, the
\* later ones create nothing, and the session is registered exactly once.
C6_OneSessionPerToken ==
    /\ \A i, j \in 1..Len(requests) :
          requests[i].cookie = requests[j].cookie
          => requests[i].session = requests[j].session
    /\ \A i \in 1..Len(requests) :
          LET t == requests[i].cookie
              first == CHOOSE j \in 1..i :
                          /\ requests[j].cookie = t
                          /\ \A l \in 1..(j - 1) : requests[l].cookie # t
          IN  t \notin {None, ""}
              => /\ requests[i].created = (i = first)
                 /\ t \in DOMAIN session_cache
                 /\ session_cache[t] = requests[i].session
                 /\ Cardinality({n \in 1..Len(registered) :
                                   registered[n] = requests[i].session}) = 1
    /\ Len(registered) = 1 + Cardinality({i \in 1..Len(requests) : requests[i].created})

\* C6 witness: two requests with the same token were accepted.
C6_Witness ==
    \E i, j \in 1..Len(requests) :
        /\ i < j
        /\ requests[i].cookie = "t1"
        /\ requests[j].cookie = "t1"
        /\ requests[j].session = requests[i].session

\* C7: a request without a session cookie is dispatched on the default
\* session constructed by __init__; accepting it constructs no session,
\* registers none and leaves the session cache as it was.
C7_NoTokenUsesDefault ==
    [][\A i \in 1..Len(requests') :
          (i > Len(requests) /\ requests'[i].cookie = None)
          => /\ requests'[i].session = default_session
             /\ default_session = registered[1]
             /\ \A n \in 1..Len(requests'[i].calls) :
                   requests'[i].calls[n].session = default_session
             /\ num_sessions' = num_sessions
             /\ registered' = registered
             /\ session_cache' = session_cache]_vars

\* C7 witness: a request without a cookie placed its call on the default
\* session after a token-bound session had been cached.
C7_Witness ==
    \E i, j \in 1..Len(requests) :
        /\ i < j
        /\ requests[i].created
        /\ requests[j].cookie = None
        /\ Len(requests[j].calls) = 1
        /\ requests[j].calls[1].session = default_session

\* C8: every remote call is placed on a session that has been handed to the
\* router session factory.
C8_RegisteredBeforeCall ==
    \A i \in 1..Len(requests) :
        \A n \in 1..Len(requests[i].calls) :
            \E m \in 1..Len(registered) : registered[m] = requests[i].calls[n].session

\* C8 witness: calls were placed on the default session and on a
\* token-bound session.
C8_Witness ==
    \E i, j \in 1..Len(requests) :
        /\ Len(requests[i].calls) = 1
        /\ requests[i].calls[1].session = default_session
        /\ Len(requests[j].calls) = 1
        /\ requests[j].created
        /\ requests[j].calls[1].session # default_session

\* C9: when the call returns a result the template renders, the status is
\* 200, the UTF-8 encoded rendering is the only thing written, and the
\* response is finished; the rendering of {name: Ann} by "Hello {{name}}"
\* is "Hello Ann".
C9_SuccessBody ==
    \A i \in 1..Len(requests) :
        LET req == requests[i] IN
        (req.completion.kind = "result" /\ req.completion.value.kind = "dict")
        => /\ req.code = 200
           /\ req.written = <<encode_utf8(render(req.template, req.completion.value))>>
           /\ req.finished = 1
           /\ (req.template = "hello_html" /\ req.completion.value.value.name = <<"Ann">>)
              => req.written = << <<"Hello ", "Ann">> >>
           /\ (req.template = "user_html"
               /\ req.completion.value.value.name = <<"<", "U+00E9", "'">>)
              => req.written = << <<"<", "p", ">", "&", "lt;", "0xC3", "0xA9",
                                    "&", "#39;", "<", "/p", ">">> >>

\* C9 witness: a result with special and non-ASCII characters was rendered.
C9_Witness ==
    \E i \in 1..Len(requests) :
        /\ requests[i].completion.kind = "result"
        /\ requests[i].completion.value.kind = "dict"
        /\ requests[i].template = "user_html"
        /\ requests[i].completion.value.value.name = <<"<", "U+00E9", "'">>
        /\ requests[i].finished = 1

\* C10: when the call fails, whatever the failure value, the status is 500,
\* the error page for the failure's error text is written, and the response
\* is finished.
C10_CallFailureIs500 ==
    \A i \in 1..Len(requests) :
        LET req == requests[i] IN
        req.completion.kind = "failure"
        => /\ req.code = 500
           /\ Len(req.written) = 1
           /\ "error" \in DOMAIN req.completion.value
              => req.written[1] = _render_error(req.completion.value.error)
           /\ req.finished = 1

\* The fixed HTML of the error page before the message.
ShellHead ==
    <<"<", "html", ">", "<", "title", ">", "API Error", "<", "/title", ">",
      "<", "body", ">", "<", "h3 style=", "\"", "color: #f00", "\"", ">",
      "Crossbar WAMP Application Page Error", "<", "/h3", ">", "<", "pre", ">">>

\* The fixed HTML of the error page after the message.
ShellTail == <<"<", "/pre", ">", "<", "/body", ">", "<", "/html", ">">>

\* C11: when the template cannot render the returned result, the status is
\* 500, the only thing written is the error page naming the type of the
\* result and the exception text (no success body), and the response is
\* finished once.
C11_RenderFailureIs500 ==
    \A i \in 1..Len(requests) :
        LET req == requests[i] IN
        (req.completion.kind = "result" /\ req.completion.value.kind = "NoneType")
        => /\ req.code = 500
           /\ req.written =
                << ShellHead \o
                   <<"WabResource render error for WAMP result of type ",
                     "&", "quot;", "&", "lt;", "class ", "'", "NoneType", "'",
                     "&", "gt;", "&", "quot;", ": ",
                     "'", "NoneType", "'", " object is not iterable">>
                   \o ShellTail >>
           /\ req.finished = 1
           /\ req.pc = "done"

\* C11 witness: a call returned a result the template cannot render.
C11_Witness ==
    \E i \in 1..Len(requests) :
        /\ requests[i].completion.kind = "result"
        /\ requests[i].completion.value.kind = "NoneType"
        /\ requests[i].template = "hello_html"
        /\ requests[i].finished = 1

\* C12: every failure in the pipeline ends in a terminal HTML response, and
\* the only exception that leaves a handler is the re-raise of the except
\* Exception clause of render_GET, after status 500 and the error page have
\* been written.
C12_FailuresBecomeResponses ==
    \A i \in 1..Len(requests) :
        LET req == requests[i] IN
        /\ req.pc = "done" => (req.finished = 1 /\ Len(req.written) >= 1)
        /\ req.raised # None
           => /\ req.raised \in {"RequestRedirect", "TransportLost"}
              /\ req.completion.kind = "none"
              /\ req.code = 500
              /\ Len(req.written) >= 1
              /\ req.written[1] =
                    ShellHead \o <<"unknown error [werkzeug.routing.MapAdapter.match]">>
                    \o ShellTail

C15_UnexpectedFailure ==
    /\ [](\A i \in 1..Len(requests) :
            LET req == requests[i]
                page == ShellHead
                        \o <<"unknown error [werkzeug.routing.MapAdapter.match]">>
                        \o ShellTail
                redirected == req.uri.segs = <<"app", "docs">> /\ ~req.uri.slash
                call_raised == req.raised = "TransportLost"
            IN  (redirected \/ call_raised)
                => /\ req.code = 500
                   /\ Len(req.written) >= 1
                   /\ req.written[1] = page
                   /\ Cardinality({n \in 1..Len(req.written) : req.written[n] = page}) = 1
                   /\ req.raised \in {"RequestRedirect", "TransportLost"}
                   /\ redirected => (req.raised = "RequestRedirect" /\ req.calls = <<>>)
                   /\ req.pc = "done"
                   /\ req.completion.kind = "none")
    /\ [][\A i \in 1..Len(requests) :
            requests[i].raised \in {"RequestRedirect", "TransportLost"}
            => requests'[i] = requests[i]]_vars

\* C15 witness: both unexpected failures happened, one in route matching
\* and one in issuing the call.
C15_Witness ==
    \E i, j \in 1..Len(requests) :
        /\ requests[i].raised = "RequestRedirect"
        /\ requests[j].raised = "TransportLost"
        /\ Len(requests[j].calls) = 1
        /\ requests[i].code = 500
        /\ requests[j].code = 500

\* body is the fixed HTML shell around a message in which no character
\* that werkzeug's escape replaces is left unescaped.
IsErrorPage(body) ==
    LET h == Len(ShellHead)
        t == Len(ShellTail)
        n == Len(body)
    IN  /\ n >= h + t
        /\ SubSeq(body, 1, h) = ShellHead
        /\ SubSeq(body, n - t + 1, n) = ShellTail
        /\ \A k \in (h + 1)..(n - t) :
              /\ body[k] \notin {"<", ">", "\""}
              /\ body[k] = "&"
                 => (k < n - t /\ body[k + 1] \in {"amp;", "lt;", "gt;", "quot;"})

\* C16: every failure response has a body produced by the error renderer:
\* the first thing written is the fixed shell around the escaped message,
\* and nothing else is written by a failure path (after the re-raise of an
\* unexpected failure the transport adds its own page).
C16_FailuresUseErrorRenderer ==
    \A i \in 1..Len(requests) :
        LET req == requests[i]
            success == req.completion.kind = "result"
                       /\ req.completion.value.kind = "dict"
        IN  (req.pc = "done" /\ ~success)
            => /\ Len(req.written) >= 1
               /\ IsErrorPage(req.written[1])
               /\ \A n \in 2..Len(req.written) :
                     /\ req.raised \in {"RequestRedirect", "TransportLost"}
                     /\ req.written[n] = <<"Processing Failed">>

\* C17: with requests in flight in any interleaving, every session handed
\* to the factory after the default one is the one cached under a token,
\* no two tokens share a session, the number of registered sessions is at
\* most the number of distinct tokens seen plus one, and a cached session
\* is never replaced or removed.
C17_NoLeakedSession ==
    /\ [](/\ \A n \in 2..Len(registered) :
                \E t \in DOMAIN session_cache : session_cache[t] = registered[n]
          /\ \A n, m \in 1..Len(registered) : registered[n] = registered[m] => n = m
          /\ \A t, u \in DOMAIN session_cache :
                session_cache[t] = session_cache[u] => t = u
          /\ Len(registered) <=
                1 + Cardinality({requests[i].cookie : i \in 1..Len(requests)}
                                \ {None, ""})
          /\ num_sessions = Len(registered))
    /\ [][\A t \in DOMAIN session_cache :
             /\ t \in DOMAIN session_cache'
             /\ session_cache'[t] = session_cache[t]]_vars

\* C17 witness: two requests with the same new token are in flight at the
\* same time, on the same session.
C17_Witness ==
    \E i, j \in 1..Len(requests) :
        /\ i < j
        /\ requests[i].cookie = "t2"
        /\ requests[j].cookie = "t2"
        /\ requests[i].pc = "awaiting"
        /\ requests[j].pc = "awaiting"
        /\ requests[i].created
        /\ requests[j].session = requests[i].session
        /\ Len(registered) = 2

\* C18: with several requests in flight, a step changes one request only;
\* the completion of a call leaves the request's template as matched for
\* its own path, and a rendered result is the rendering of its own call's
\* result by that template, written to its own response, which it finishes.
C18_CompletionsAreIndependent ==
    [][\A j \in 1..Len(requests) :
          requests'[j] # requests[j]
          => LET old == requests[j]
                 new == requests'[j]
                 own == IF old.uri.segs = <<"app", "hello">> THEN "hello_html"
                        ELSE "user_html"
             IN  /\ Len(requests') = Len(requests)
                 /\ \A i \in 1..Len(requests) : i # j => requests'[i] = requests[i]
                 /\ old.pc = "awaiting"
                 /\ old.template = own
                 /\ new.template = own
                 /\ new.completion.kind # "none"
                 /\ new.finished = IF new.raised = None THEN 1 ELSE 0
                 /\ (new.completion.kind = "result" /\ new.completion.value.kind = "dict")
                    => /\ new.code = 200
                       /\ new.written = <<encode_utf8(render(own, new.completion.value))>>]_vars

\* C18 witness: of two requests in flight with different templates the
\* later one completed first and the earlier one is still waiting.
C18_Witness ==
    \E i, j \in 1..Len(requests) :
        /\ i < j
        /\ requests[i].pc = "awaiting"
        /\ requests[i].template = "user_html"
        /\ requests[j].template = "hello_html"
        /\ requests[j].completion.kind = "result"
        /\ requests[j].completion.value.kind = "dict"
        /\ requests[j].finished = 1

\* C19: a request whose session cookie is present but empty is handled as
\* one without a cookie: it is dispatched on the default session, and no
\* session is constructed, registered or cached under the empty token.
C19_EmptyTokenUsesDefault ==
    /\ [](\A t \in DOMAIN session_cache : t # "")
    /\ [][\A i \in 1..Len(requests') :
             (i > Len(requests) /\ requests'[i].cookie = "")
             => /\ requests'[i].session = default_session
                /\ ~requests'[i].created
                /\ \A n \in 1..Len(requests'[i].calls) :
                      requests'[i].calls[n].session = registered[1]
                /\ num_sessions' = num_sessions
                /\ registered' = registered
                /\ session_cache' = session_cache]_vars

\* C19 witness: a request with an empty cookie placed its call on the
\* default session while a token-bound session was cached.
C19_Witness ==
    \E i, j \in 1..Len(requests) :
        /\ requests[i].created
        /\ requests[j].cookie = ""
        /\ Len(requests[j].calls) = 1
        /\ requests[j].calls[1].session = default_session
        /\ Len(registered) = 2

====
